---- MODULE Spec2Model ----
(***************************************************************************)
(* Model of the unslop diagram pipeline (src/src/unslop/diagram.py):       *)
(* selection of the files to regenerate from two manifests, the overview   *)
(* step of generate_diagram, and the background thread that forwards the   *)
(* artifacts of unchanged units and hands the rest to the unit generator;   *)
(* and of the run directories under .unslop                                *)
(* (src/src/unslop/unslop_dir_management.py) with latest_diagram.          *)
(***************************************************************************)
EXTENDS Integers, Sequences, FiniteSets, TLC

(***************************************************************************)
(* Bounds                                                                  *)
(***************************************************************************)
MaxHash == 2
MaxNodes == 2
MaxRunsBefore == 1
MaxSuffix == 1
MaxClock == 1
MaxRuns == 2

(***************************************************************************)
(* Paths are strings, modelled as sequences of characters so that          *)
(* startswith and slicing are computed as the code computes them.          *)
(***************************************************************************)
pA == <<"a">>
pSrcA == <<"s", "r", "c", "/", "a">>
pLibA == <<"l", "i", "b", "/", "a">>
Paths == {pA, pSrcA, pLibA}
Hashes == 1..MaxHash
\* the metadata of a manifest entry (size, mtime), which no reader looks at
SameMeta == {0}
MetaValues == {0, 1}
\* a manifest entry: the content hash and the metadata recorded with it
Entries(metas) == [hash : Hashes, meta : metas]

SrcName == <<"s", "r", "c">>
Dot == <<".">>
EmptyStr == <<>>

StartsWith(s, pre) == Len(s) >= Len(pre) /\ SubSeq(s, 1, Len(pre)) = pre
SliceFrom(s, n) == SubSeq(s, n + 1, Len(s))

RECURSIVE RStripSlash(_)
RStripSlash(s) ==
    IF Len(s) > 0 /\ s[Len(s)] = "/" THEN RStripSlash(SubSeq(s, 1, Len(s) - 1)) ELSE s

(***************************************************************************)
(* Manifest files.  st is what a reader finds: no file, a file that does   *)
(* not parse, a document whose "files" is not a mapping, or entries.       *)
(***************************************************************************)
NoEntries == <<>>
ManifestAbsent == [st |-> "absent", files |-> NoEntries]
ManifestUnreadable == [st |-> "unreadable", files |-> NoEntries]
ManifestNoEntries == [st |-> "noentries", files |-> NoEntries]
ManifestOk(f) == [st |-> "ok", files |-> f]

\* Optional values: None of the code is isNone = TRUE
NoneSet == [isNone |-> TRUE, paths |-> {}]
SomeSet(S) == [isNone |-> FALSE, paths |-> S]
EmptyDict == <<>>
NoneDict == [isNone |-> TRUE, files |-> EmptyDict]
SomeDict(f) == [isNone |-> FALSE, files |-> f]

\* source_dir = src_root if src_root.is_dir() else folder, relative to folder
relative_source(isDir) == IF isDir THEN SrcName ELSE Dot

\* the prefix both loaders compute from relative_source.as_posix()
PrefixOf(isDir) ==
    LET p == relative_source(isDir)
    IN IF p = EmptyStr \/ p = Dot THEN EmptyStr ELSE RStripSlash(p) \o <<"/">>

\* (source_dir / relative_path).is_file()
IsSourceFile(files, isDir, rel) == (PrefixOf(isDir) \o rel) \in files

\* _load_all_files
_load_all_files(m, isDir) ==
    IF m.st # "ok" THEN NoneSet
    ELSE LET prefix == PrefixOf(isDir)
         IN IF prefix = EmptyStr THEN SomeSet(DOMAIN m.files)
            ELSE SomeSet({SliceFrom(k, Len(prefix)) :
                            k \in {x \in DOMAIN m.files : StartsWith(x, prefix)}})

\* manifest.read_manifest_entries: the entries, or None for a file that is
\* missing, does not parse or holds no mapping
read_manifest_entries(m) == [isNone |-> m.st # "ok", files |-> m.files]

\* a diff that compares whole entries, metadata included
SummarizeByWholeEntry(prev, cur) ==
    [added |-> DOMAIN cur \ DOMAIN prev,
     deleted |-> DOMAIN prev \ DOMAIN cur,
     modified |-> {k \in DOMAIN prev \cap DOMAIN cur : prev[k] # cur[k]}]
\* manifest.summarize_changes
summarize_changes(prev, cur) ==
    [added |-> DOMAIN cur \ DOMAIN prev,
     deleted |-> DOMAIN prev \ DOMAIN cur,
     modified |-> {k \in DOMAIN prev \cap DOMAIN cur : prev[k].hash # cur[k].hash}]

\* manifest.find_previous_manifest: index of the newest older run that holds
\* a readable manifest file, 0 when there is none
RECURSIVE find_previous_manifest(_)
find_previous_manifest(runsBefore) ==
    IF runsBefore = <<>> THEN 0
    ELSE IF runsBefore[Len(runsBefore)].st \in {"ok", "noentries"} THEN Len(runsBefore)
         ELSE find_previous_manifest(SubSeq(runsBefore, 1, Len(runsBefore) - 1))

\* the marker one changed path gets in the loop of _load_changed_files;
\* "skip" stands for the two continue statements that drop the path
ChangedMarker(rel, summary, isFile) ==
    IF rel \in summary.deleted THEN "deleted"
    ELSE IF ~isFile THEN "skip"
    ELSE IF rel \in summary.added THEN "added"
    ELSE IF rel \in summary.modified THEN "updated"
    ELSE "updated"

\* _load_changed_files without the startswith filter
LoadChangedNoPrefixFilter(cur, runsBefore, isDir, files) ==
    LET prevIdx == find_previous_manifest(runsBefore)
    IN IF cur.st = "absent" \/ prevIdx = 0 THEN NoneDict
       ELSE LET curE == read_manifest_entries(cur)
                prevE == read_manifest_entries(runsBefore[prevIdx])
            IN IF curE.isNone \/ prevE.isNone THEN NoneDict
               ELSE LET summary == summarize_changes(prevE.files, curE.files)
                        changed == summary.added \cup summary.modified \cup summary.deleted
                        prefix == PrefixOf(isDir)
                        rels == {SliceFrom(p, Len(prefix)) : p \in changed} \ {EmptyStr}
                        kept == {r \in rels :
                                   ChangedMarker(r, summary, IsSourceFile(files, isDir, r)) # "skip"}
                    IN IF changed = {} THEN SomeDict(EmptyDict)
                       ELSE SomeDict([r \in kept |->
                                ChangedMarker(r, summary, IsSourceFile(files, isDir, r))])
\* _load_changed_files.  Slicing is injective on the paths that pass the
\* prefix test, so the dict the loop builds does not depend on its order.
_load_changed_files(cur, runsBefore, isDir, files) ==
    LET prevIdx == find_previous_manifest(runsBefore)
    IN IF cur.st = "absent" \/ prevIdx = 0 THEN NoneDict
       ELSE LET curE == read_manifest_entries(cur)
                prevE == read_manifest_entries(runsBefore[prevIdx])
            IN IF curE.isNone \/ prevE.isNone THEN NoneDict
               ELSE LET summary == summarize_changes(prevE.files, curE.files)
                        changed == summary.added \cup summary.modified \cup summary.deleted
                        prefix == PrefixOf(isDir)
                        rels == {SliceFrom(p, Len(prefix)) :
                                   p \in {x \in changed : StartsWith(x, prefix)}} \ {EmptyStr}
                        kept == {r \in rels :
                                   ChangedMarker(r, summary, IsSourceFile(files, isDir, r)) # "skip"}
                    IN IF changed = {} THEN SomeDict(EmptyDict)
                       ELSE SomeDict([r \in kept |->
                                ChangedMarker(r, summary, IsSourceFile(files, isDir, r))])

\* any(part.startswith(".") for part in rel_path.parts)
IsHidden(rel) ==
    \E i \in 1..Len(rel) : rel[i] = "." /\ (i = 1 \/ rel[i - 1] = "/")

\* combine_src_files: the "### FILE: <path> (<label>)" headers of the text,
\* as pairs <<path, label>>; label "" when the header carries none
combine_src_files(isDir, files, allowed_files) ==
    LET prefix == PrefixOf(isDir)
        rels == {SliceFrom(p, Len(prefix)) : p \in {x \in files : StartsWith(x, prefix)}}
        shown == {r \in rels : (allowed_files.isNone \/ r \in DOMAIN allowed_files.files) /\ ~IsHidden(r)}
        label(r) == IF ~allowed_files.isNone /\ allowed_files.files # EmptyDict THEN allowed_files.files[r] ELSE ""
        gone == IF allowed_files.isNone THEN {}
                ELSE {r \in DOMAIN allowed_files.files : allowed_files.files[r] = "deleted"}
    IN {<<r, label(r)>> : r \in shown} \cup {<<r, "deleted">> : r \in gone}

(***************************************************************************)
(* Overview schema, units and their artifact files                         *)
(***************************************************************************)
UnitIds == {"a", "b"}
NoId == ""
KindSet == {"json", "d2"}
Statuses == {"unchanged", "changed", "unknown", "absent"}
Node == [id : UnitIds \cup {NoId}, status : Statuses]
NodeListsUpTo(m) == UNION {[1..n -> Node] : n \in 0..m}
NodeLists == NodeListsUpTo(MaxNodes)

\* what a reader of overview.json finds: no file, text that is not JSON, a
\* document that is not an object of objects, "nodes" not a list, or nodes
SchemaAbsent == [st |-> "absent", nodes |-> <<>>]
SchemaUnreadable == [st |-> "unreadable", nodes |-> <<>>]
SchemaBadDoc == [st |-> "baddoc", nodes |-> <<>>]
SchemaNoList == [st |-> "nolist", nodes |-> <<>>]
SchemaOk(ns) == [st |-> "ok", nodes |-> ns]
SchemaTextsOver(lists) ==
    {SchemaUnreadable, SchemaBadDoc, SchemaNoList} \cup {SchemaOk(ns) : ns \in lists}
SchemaTexts == SchemaTextsOver(NodeLists)
\* the texts the schema service returns in the runs of generate_diagram
ServiceTexts ==
    SchemaTextsOver({<<>>,
                     <<[id |-> "a", status |-> "unchanged"]>>,
                     <<[id |-> "a", status |-> "changed"]>>,
                     <<[id |-> "a", status |-> "unchanged"], [id |-> "b", status |-> "unknown"]>>,
                     <<[id |-> "a", status |-> "unchanged"], [id |-> "a", status |-> "changed"]>>})

\* file contents: no file, the bytes the previous run left in file f, what a
\* copy that raised while writing leaves, what the unit generator writes
UnitFiles == UnitIds \X KindSet
NoFile == <<>>
PrevBytes(f) == <<"previous", f[1], f[2]>>
Truncated == <<"truncated">>
Regenerated == <<"regenerated">>
\* what a writer that has not finished has put into a file so far
Incomplete == <<"incomplete">>
NoUnitFiles == [f \in UnitFiles |-> NoFile]
\* the unit artifacts a previous run directory may hold
PrevDirs == {[f \in UnitFiles |-> IF f \in S THEN PrevBytes(f) ELSE NoFile] : S \in SUBSET UnitFiles}

\* a previous run directory whose unit generator is still writing
PrevDirsBeingWritten == [UnitFiles -> {NoFile, Incomplete}] \cup PrevDirs

\* outcomes of one shutil.copy2: done, raised before the destination was
\* opened, raised while writing it, raised in copystat after writing it
CopyOutcomes == {"ok", "fail_open", "fail_partial", "fail_stat"}

\* the destination file after one shutil.copy2(src, dest)
CopyDest(srcContent, destContent, outcome) ==
    CASE outcome = "ok" -> srcContent
      [] outcome = "fail_open" -> destContent
      [] outcome = "fail_partial" -> Truncated
      [] outcome = "fail_stat" -> srcContent

\* the kinds _reuse_previous_node_diagram tries to copy: src.is_file()
FoundKinds(prev, id) == {k \in KindSet : prev[<<id, k>>] # NoFile}

\* _reuse_previous_node_diagram with src computed once, for the first suffix
ReuseCopiesJsonForEveryKind(id, prev, out, oc) ==
    [copied |-> \E k \in FoundKinds(prev, id) : oc[k] = "ok",
     out |-> [f \in UnitFiles |->
                IF f[1] = id /\ f[2] \in FoundKinds(prev, id)
                THEN CopyDest(prev[<<id, "json">>], out[f], oc[f[2]])
                ELSE out[f]]]
\* _reuse_previous_node_diagram: copied, and the output directory after it
_reuse_previous_node_diagram(id, prev, out, oc) ==
    [copied |-> \E k \in FoundKinds(prev, id) : oc[k] = "ok",
     out |-> [f \in UnitFiles |->
                IF f[1] = id /\ f[2] \in FoundKinds(prev, id)
                THEN CopyDest(prev[f], out[f], oc[f[2]])
                ELSE out[f]]]

\* unchanged_ids of _prepare_node_diagram_inputs
unchanged_ids(ns) ==
    {ns[i].id : i \in {j \in 1..Len(ns) : ns[j].status = "unchanged" /\ ns[j].id # NoId}}

\* every id of the schema, what the unit generator works on when it is
\* handed include_node_ids = None
AllIds(ns) == {ns[i].id : i \in {j \in 1..Len(ns) : ns[j].id # NoId}}

(***************************************************************************)
(* The state root .unslop and its run directories                          *)
(* (src/src/unslop/unslop_dir_management.py).  Names are strings; they are *)
(* compared as Python compares str, by code point.                         *)
(***************************************************************************)
DigitChars == <<"0", "1", "2", "3", "4", "5", "6", "7", "8", "9">>
\* the characters of the names, in the order of their code points
CharOrder == <<"-", ".">> \o DigitChars \o <<"T", "Z", "a", "d", "e", "f", "i", "j", "m", "n", "o", "r", "s", "t", "v", "w", "z">>
Code(c) == CHOOSE i \in 1..Len(CharOrder) : CharOrder[i] = c
IsDigit(c) == \E i \in 1..Len(DigitChars) : DigitChars[i] = c

\* s < t on str
RECURSIVE LexLess(_, _)
LexLess(s, t) ==
    IF s = <<>> THEN t # <<>>
    ELSE IF t = <<>> THEN FALSE
    ELSE IF s[1] = t[1] THEN LexLess(Tail(s), Tail(t))
    ELSE Code(s[1]) < Code(t[1])

\* sorted(S)
RECURSIVE SortedSeq(_)
SortedSeq(S) ==
    IF S = {} THEN <<>>
    ELSE LET least == CHOOSE x \in S : \A y \in S \ {x} : LexLess(x, y)
         IN <<least>> \o SortedSeq(S \ {least})

\* f"{n:0{w}d}"
Pad(n, w) == [i \in 1..w |-> DigitChars[((n \div (10 ^ (w - i))) % 10) + 1]]
\* strftime("%Y%m%dT%H%M%SZ") at second t of one minute
Timestamp(t) == <<"2", "0", "2", "6", "1", "1", "0", "3", "T", "0", "0", "0", "0">> \o Pad(t, 2) \o <<"Z">>
\* f"{timestamp}-{suffix}"
RunName(t, sfx) == Timestamp(t) \o <<"-">> \o Pad(sfx, 4)

\* _RUN_DIR_RE.match(name)
MatchesRunDirRe(name) ==
    /\ Len(name) = 21
    /\ \A i \in 1..8 : IsDigit(name[i])
    /\ name[9] = "T"
    /\ \A i \in 10..15 : IsDigit(name[i])
    /\ name[16] = "Z"
    /\ name[17] = "-"
    /\ \A i \in 18..21 : IsDigit(name[i])

\* the files of a run directory the model follows
OverviewD2 == <<"o", "v", "e", "r", "v", "i", "e", "w", ".", "d", "2">>
UnitAD2 == <<"a", ".", "d", "2">>
UnitZD2 == <<"z", ".", "d", "2">>
ManifestJson == <<"m", "a", "n", "i", "f", "e", "s", "t", ".", "j", "s", "o", "n">>
D2Suffix == <<".", "d", "2">>
D2Files == {OverviewD2, UnitAD2, UnitZD2}
\* an entry of .unslop that is no run directory: the folder of the manifests
LegacyDir == <<"m", "a", "n", "i", "f", "e", "s", "t">>
EndsWith(s, suf) == Len(s) >= Len(suf) /\ SubSeq(s, Len(s) - Len(suf) + 1, Len(s)) = suf

\* an entry of .unslop: a directory or a file, and the files a directory holds
DirEntry(files) == [dir |-> TRUE, files |-> files]
FileEntry == [dir |-> FALSE, files |-> {}]
NoStore == <<>>

\* the suffixes secrets.randbelow draws from
Suffixes == 0..MaxSuffix

\* a test that never finds a marker to remove
NeverUnlink(u) == FALSE
\* "unslop_dir.exists() and not unslop_dir.is_dir()"
NeedsUnlink(u) == u = "file"
\* unslop_dir.unlink(): raises for a missing path and for a directory
Unlink(u) == [raised |-> u # "file", unslop |-> IF u = "file" THEN "absent" ELSE u]
\* unslop_dir.mkdir(exist_ok=True): raises when the path is a file
MkdirExistOk(u) == [raised |-> u = "file", unslop |-> IF u = "file" THEN u ELSE "dir"]
\* ensure_unslop_dir, run without interruption
ensure_unslop_dir(u) ==
    IF NeedsUnlink(u)
    THEN IF Unlink(u).raised THEN Unlink(u) ELSE MkdirExistOk(Unlink(u).unslop)
    ELSE MkdirExistOk(u)

\* run_dir.mkdir(exist_ok=True)
MkdirReusing(st, name) ==
    [raised |-> FALSE,
     store |-> IF name \in DOMAIN st THEN st ELSE (name :> DirEntry({})) @@ st]
\* run_dir.mkdir(): raises when the name is taken
Mkdir(st, name) ==
    [raised |-> name \in DOMAIN st,
     store |-> IF name \in DOMAIN st THEN st ELSE (name :> DirEntry({})) @@ st]

\* create_run_dir that keeps the new run directory only
CreateRunDirPruning(u, st, t, sfx) ==
    [raised |-> ensure_unslop_dir(u).raised,
     unslop |-> ensure_unslop_dir(u).unslop,
     store |-> IF ensure_unslop_dir(u).raised THEN st ELSE (RunName(t, sfx) :> DirEntry({})),
     name |-> RunName(t, sfx)]
\* create_run_dir at second t with the suffix sfx, run without interruption
create_run_dir(u, st, t, sfx) ==
    LET e == ensure_unslop_dir(u)
        m == Mkdir(st, RunName(t, sfx))
    IN [raised |-> e.raised \/ m.raised,
        unslop |-> e.unslop,
        store |-> IF e.raised THEN st ELSE m.store,
        name |-> RunName(t, sfx)]

\* list_run_dirs
list_run_dirs(u, st) ==
    IF u # "dir" THEN <<>>
    ELSE SortedSeq({n \in DOMAIN st : st[n].dir /\ MatchesRunDirRe(n)})

\* latest_run_dir
NoRunDir == [isNone |-> TRUE, name |-> <<>>]
latest_run_dir(u, st) ==
    LET runs == list_run_dirs(u, st)
    IN IF runs = <<>> THEN NoRunDir ELSE [isNone |-> FALSE, name |-> runs[Len(runs)]]

\* the body of the loop of latest_diagram without the test of overview.d2
PickDiagramLastOnly(files) ==
    LET diagrams == SortedSeq({f \in files : EndsWith(f, D2Suffix)})
    IN IF diagrams # <<>> THEN [found |-> TRUE, file |-> diagrams[Len(diagrams)]]
       ELSE [found |-> FALSE, file |-> <<>>]
\* the body of the loop of latest_diagram: overview.d2, else the last of
\* sorted(run_dir.glob("*.d2")), else go on
PickDiagram(files) ==
    LET diagrams == SortedSeq({f \in files : EndsWith(f, D2Suffix)})
    IN IF OverviewD2 \in files THEN [found |-> TRUE, file |-> OverviewD2]
       ELSE IF diagrams # <<>> THEN [found |-> TRUE, file |-> diagrams[Len(diagrams)]]
       ELSE [found |-> FALSE, file |-> <<>>]

\* latest_diagram: the loop over reversed(list_run_dirs(folder))
NoDiagram == [isNone |-> TRUE, run |-> <<>>, file |-> <<>>]
RECURSIVE LatestIn(_, _)
LatestIn(runs, st) ==
    IF runs = <<>> THEN NoDiagram
    ELSE LET run == runs[Len(runs)]
             pick == PickDiagram(st[run].files)
         IN IF pick.found THEN [isNone |-> FALSE, run |-> run, file |-> pick.file]
            ELSE LatestIn(SubSeq(runs, 1, Len(runs) - 1), st)
latest_diagram(u, st) == LatestIn(list_run_dirs(u, st), st)

(***************************************************************************)
(* State                                                                   *)
(***************************************************************************)
VARIABLES
    is_update,       \* generate_diagram(is_update=...)
    givenOut,       \* output_dir was passed by the caller
    srcIsDir,       \* (folder / "src").is_dir()
    disk,           \* the files of the project, relative to folder
    runsBefore,     \* manifest.json of the run directories older than output_dir, oldest first
    outExists,      \* output_dir exists
    outManifest,    \* output_dir / "manifest.json"
    outCombined,    \* output_dir / "combined_files.txt"
    outSchema,      \* output_dir / "overview.json"
    outD2,          \* output_dir / "overview.d2" is a file
    outUnits,       \* output_dir / "<unit>.<kind>"
    prevSchema,     \* previous_run_dir / "overview.json"
    prevUnits,      \* previous_run_dir / "<unit>.<kind>"
    pc,             \* position of the caller's thread in generate_diagram
    ret,            \* what generate_diagram returned
    allowed_files,        \* allowed_files
    previous_run_dir, \* previous_run_dir is not None
    previous_schema, \* previous_schema handed to update_overview_schema
    overview_schema,  \* overview_schema returned by the schema service
    bg,             \* position of the thread unslop-node-diagrams
    idx,            \* position of the loop over nodes
    include_nodes,        \* include_nodes
    handed,         \* the call of generate_node_schema_and_diagram
    copiedOk,       \* the artifact files a copy2 call completed for
    failed,         \* the units a copy2 call raised for
    bgError,        \* run() logged an exception
    events,         \* the unslop_loading markers logged so far
    threadStarts,   \* calls of thread.start()
    schemaCalls,    \* calls of the overview schema service
    createdRunDir,  \* generate_diagram created output_dir
    unslop,         \* what root / ".unslop" is: absent, a file, a directory
    store,          \* the entries of .unslop; the files of the runs of this call are above
    clock,          \* the second datetime.now() is in
    created,        \* the run directories create_run_dir returned, in the order of the returns
    inv,            \* position of each concurrent invocation of create_run_dir
    latest          \* what latest_diagram returned

rootVars == <<unslop, store, created>>
inputVars == <<is_update, givenOut, srcIsDir, disk, runsBefore, outManifest, prevSchema, prevUnits,
               clock, inv, latest>>
outVars == <<outExists, outCombined, outSchema, outD2, outUnits, createdRunDir, rootVars>>
mainVars == <<pc, ret, allowed_files, previous_run_dir, previous_schema, overview_schema, schemaCalls>>
bgVars == <<bg, idx, include_nodes, handed, copiedOk, failed, bgError>>
vars == <<inputVars, outVars, mainVars, bgVars, events, threadStarts>>

Invokers == {1, 2}
IdleInvoker == [pc |-> "idle", saw |-> "absent", name |-> <<>>]
NotCalled == [called |-> FALSE, result |-> NoDiagram]
\* the run directories older than output_dir, and output_dir when the caller
\* made it; their files are in runsBefore, prevSchema, prevUnits and out*
OldRunNames(k) == {RunName(0, j - 1) : j \in 1..k}
GivenRunName == RunName(1, 0)

NoCombined == [present |-> FALSE, headers |-> {}]
NoneIds == [isNone |-> TRUE, ids |-> {}]
SomeIds(S) == [isNone |-> FALSE, ids |-> S]
NotHanded == [called |-> FALSE, isNone |-> FALSE, ids |-> {}]

\* the run directory previous_manifest.parent exists
HasPrevious == find_previous_manifest(runsBefore) # 0

(***************************************************************************)
(* generate_diagram, on the caller's thread                                *)
(***************************************************************************)
\* generate_diagram up to the dispatch: overview_start, create_run_dir, mkdir
Enter ==
    /\ pc = "idle"
    /\ events' = Append(events, "overview_start")
    /\ IF givenOut
       THEN /\ outExists' = TRUE
            /\ createdRunDir' = ~outExists
            /\ pc' = "entered"
            /\ UNCHANGED rootVars
       ELSE \E sfx \in Suffixes :
              LET r == create_run_dir(unslop, store, clock, sfx)
              IN /\ unslop' = r.unslop
                 /\ store' = r.store
                 /\ IF r.raised
                    THEN /\ pc' = "raised"
                         /\ UNCHANGED <<outExists, createdRunDir, created>>
                    ELSE /\ created' = Append(created, r.name)
                         /\ outExists' = TRUE
                         /\ createdRunDir' = ~outExists
                         /\ pc' = "entered"
    /\ UNCHANGED <<inputVars, outCombined, outSchema, outD2, outUnits, ret, allowed_files,
                   previous_run_dir, previous_schema, overview_schema, schemaCalls, bgVars,
                   threadStarts>>

\* _generate_overview_diagram up to combine_src_files
PlanFull ==
    /\ pc = "entered" /\ ~is_update
    /\ LET all == _load_all_files(outManifest, srcIsDir)
           dict == IF all.isNone THEN NoneDict ELSE SomeDict([r \in all.paths |-> "added"])
       IN /\ allowed_files' = dict
          /\ outCombined' = [present |-> TRUE,
                             headers |-> combine_src_files(srcIsDir, disk, dict)]
    /\ previous_run_dir' = FALSE
    /\ pc' = "planned"
    /\ UNCHANGED <<inputVars, outExists, outSchema, outD2, outUnits, createdRunDir, rootVars, ret,
                   previous_schema, overview_schema, schemaCalls, bgVars, events, threadStarts>>

\* "if allowed_files is None"
NotAllowedNoneOnly(a) == a.isNone
\* what "if not allowed_files" tests
NotAllowed(a) == a.isNone \/ a.files = EmptyDict

\* an update step that logs overview_stop when it skips the update
PlanUpdateStopsOnSkip ==
    /\ pc = "entered" /\ is_update
    /\ LET dict == _load_changed_files(outManifest, runsBefore, srcIsDir, disk)
       IN /\ allowed_files' = dict
          /\ IF NotAllowed(dict)
             THEN /\ ret' = "None"
                  /\ pc' = "returned"
                  /\ events' = Append(events, "overview_stop")
                  /\ UNCHANGED <<outCombined, previous_run_dir, previous_schema>>
             ELSE /\ outCombined' = [present |-> TRUE,
                                     headers |-> combine_src_files(srcIsDir, disk, dict)]
                  /\ previous_run_dir' = HasPrevious
                  /\ previous_schema' = IF HasPrevious /\ prevSchema.st # "absent"
                                       THEN prevSchema ELSE SchemaAbsent
                  /\ pc' = "planned"
                  /\ ret' = ret
                  /\ events' = events
    /\ UNCHANGED <<inputVars, outExists, outSchema, outD2, outUnits, createdRunDir, rootVars,
                   overview_schema, schemaCalls, bgVars, threadStarts>>
\* _update_overview_diagram up to the read of the previous schema
PlanUpdate ==
    /\ pc = "entered" /\ is_update
    /\ LET dict == _load_changed_files(outManifest, runsBefore, srcIsDir, disk)
       IN /\ allowed_files' = dict
          /\ IF NotAllowed(dict)
             THEN /\ ret' = "None"
                  /\ pc' = "returned"
                  /\ UNCHANGED <<outCombined, previous_run_dir, previous_schema>>
             ELSE /\ outCombined' = [present |-> TRUE,
                                     headers |-> combine_src_files(srcIsDir, disk, dict)]
                  /\ previous_run_dir' = HasPrevious
                  /\ previous_schema' = IF HasPrevious /\ prevSchema.st # "absent"
                                       THEN prevSchema ELSE SchemaAbsent
                  /\ pc' = "planned"
                  /\ ret' = ret
    /\ UNCHANGED <<inputVars, outExists, outSchema, outD2, outUnits, createdRunDir, rootVars,
                   overview_schema, schemaCalls, bgVars, events, threadStarts>>

\* generate_overview_schema / update_overview_schema returns a schema text
SchemaCallOk ==
    /\ pc = "planned"
    /\ \E text \in ServiceTexts : overview_schema' = text
    /\ schemaCalls' = schemaCalls + 1
    /\ pc' = "schemaReady"
    /\ UNCHANGED <<inputVars, outVars, ret, allowed_files, previous_run_dir, previous_schema, bgVars,
                   events, threadStarts>>

\* a failed schema call that falls through to the write of overview.json
SchemaCallFailsFallsThrough ==
    /\ pc = "planned"
    /\ schemaCalls' = schemaCalls + 1
    /\ pc' = "schemaReady"
    /\ UNCHANGED <<inputVars, outVars, ret, allowed_files, previous_run_dir, previous_schema,
                   overview_schema, bgVars, events, threadStarts>>
\* the schema service raises: logged, generate_diagram returns None
SchemaCallFails ==
    /\ pc = "planned"
    /\ schemaCalls' = schemaCalls + 1
    /\ ret' = "None"
    /\ pc' = "returned"
    /\ UNCHANGED <<inputVars, outVars, allowed_files, previous_run_dir, previous_schema, overview_schema,
                   bgVars, events, threadStarts>>

\* schema_path.write_text(overview_schema)
WriteSchema ==
    /\ pc = "schemaReady"
    /\ outSchema' = overview_schema
    /\ pc' = "written"
    /\ UNCHANGED <<inputVars, outExists, outCombined, outD2, outUnits, createdRunDir, rootVars, ret,
                   allowed_files, previous_run_dir, previous_schema, overview_schema, schemaCalls,
                   bgVars, events, threadStarts>>

\* get_overview_d2_diagram(schema_path, output_dir): overview.d2 is written or
\* not; the call is inside no try block, so an exception of the renderer
\* leaves generate_diagram
RenderOverview ==
    /\ pc = "written"
    /\ \E wrote \in BOOLEAN : outD2' = wrote
    /\ \E raises \in BOOLEAN : pc' = IF raises THEN "raised" ELSE "rendered"
    /\ UNCHANGED <<inputVars, outExists, outCombined, outSchema, outUnits, createdRunDir, rootVars,
                   ret, allowed_files, previous_run_dir, previous_schema, overview_schema, schemaCalls,
                   bgVars, events, threadStarts>>

\* _start_node_diagrams started before the schema is written
StartThreadEarly ==
    /\ pc \in {"schemaReady", "rendered"}
    /\ bg = "idle"
    /\ events' = Append(events, "node_start")
    /\ threadStarts' = threadStarts + 1
    /\ bg' = "started"
    /\ pc' = IF pc = "rendered" THEN "threadStarted" ELSE pc
    /\ UNCHANGED <<inputVars, outVars, ret, allowed_files, previous_run_dir, previous_schema,
                   overview_schema, schemaCalls, idx, include_nodes, handed, copiedOk, failed, bgError>>
\* _start_node_diagrams: node_start, thread.start()
StartThread ==
    /\ pc = "rendered"
    /\ events' = Append(events, "node_start")
    /\ threadStarts' = threadStarts + 1
    /\ bg' = "started"
    /\ pc' = "threadStarted"
    /\ UNCHANGED <<inputVars, outVars, ret, allowed_files, previous_run_dir, previous_schema,
                   overview_schema, schemaCalls, idx, include_nodes, handed, copiedOk, failed, bgError>>

\* a return that follows thread.join()
ReturnAfterJoin ==
    /\ pc = "threadStarted"
    /\ bg = "done"
    /\ IF outD2
       THEN /\ ret' = "path"
            /\ events' = Append(events, "overview_stop")
       ELSE /\ ret' = "None"
            /\ events' = events
    /\ pc' = "returned"
    /\ UNCHANGED <<inputVars, outVars, allowed_files, previous_run_dir, previous_schema, overview_schema,
                   schemaCalls, bgVars, threadStarts>>
\* the tail of the overview step and of generate_diagram: overview_path.is_file(),
\* overview_stop and the return
Return ==
    /\ pc = "threadStarted"
    /\ IF outD2
       THEN /\ ret' = "path"
            /\ events' = Append(events, "overview_stop")
       ELSE /\ ret' = "None"
            /\ events' = events
    /\ pc' = "returned"
    /\ UNCHANGED <<inputVars, outVars, allowed_files, previous_run_dir, previous_schema, overview_schema,
                   schemaCalls, bgVars, threadStarts>>

(***************************************************************************)
(* run(), on the thread unslop-node-diagrams                               *)
(***************************************************************************)
\* _prepare_node_diagram_inputs up to the loop over nodes
BgPrepare ==
    /\ bg = "started"
    /\ IF ~previous_run_dir \/ outSchema.st \in {"absent", "unreadable", "nolist"}
       THEN /\ include_nodes' = NoneIds
            /\ bg' = "prepared"
            /\ UNCHANGED <<idx, bgError>>
       ELSE IF outSchema.st = "baddoc"
       THEN /\ bgError' = TRUE
            /\ bg' = "finally"
            /\ UNCHANGED <<idx, include_nodes>>
       ELSE IF unchanged_ids(outSchema.nodes) = {}
       THEN /\ include_nodes' = NoneIds
            /\ bg' = "prepared"
            /\ UNCHANGED <<idx, bgError>>
       ELSE /\ include_nodes' = SomeIds({})
            /\ idx' = 1
            /\ bg' = "forwarding"
            /\ UNCHANGED bgError
    /\ UNCHANGED <<inputVars, outVars, mainVars, handed, copiedOk, failed, events, threadStarts>>

\* a loop that a failed forwarding ends
NextIndexBreakOnFailure(i, n, reused) == IF reused THEN i + 1 ELSE n + 1
\* the loop "for node in nodes" goes on to the next node, whatever the
\* forwarding of this one returned
NextIndex(i, n, reused) == i + 1

\* "node_id not in unchanged_ids" is false: the node is forwarded
TreatedAsUnchanged(node, ns) == node.id \in unchanged_ids(ns)

\* a unit is kept out of include_nodes only when every kind was copied
NeedsRegenerationUnlessAll(copied, found, oc) == \E k \in KindSet : k \notin found \/ oc[k] # "ok"
\* "if not _reuse_previous_node_diagram(...)": the unit is regenerated
NeedsRegeneration(copied, found, oc) == ~copied

\* one iteration of the loop of _prepare_node_diagram_inputs
BgForward ==
    /\ bg = "forwarding"
    /\ idx <= Len(outSchema.nodes)
    /\ LET ns == outSchema.nodes
           node == ns[idx]
       IN IF node.id = NoId
          THEN /\ UNCHANGED <<include_nodes, outUnits, copiedOk, failed>>
               /\ idx' = idx + 1
               /\ bg' = IF idx + 1 > Len(ns) THEN "prepared" ELSE "forwarding"
          ELSE IF ~TreatedAsUnchanged(node, ns)
          THEN /\ include_nodes' = SomeIds(include_nodes.ids \cup {node.id})
               /\ UNCHANGED <<outUnits, copiedOk, failed>>
               /\ idx' = idx + 1
               /\ bg' = IF idx + 1 > Len(ns) THEN "prepared" ELSE "forwarding"
          ELSE \E oc \in [KindSet -> CopyOutcomes] :
                 LET found == FoundKinds(prevUnits, node.id)
                     r == _reuse_previous_node_diagram(node.id, prevUnits, outUnits, oc)
                     ni == NextIndex(idx, Len(ns), r.copied)
                 IN /\ outUnits' = r.out
                    /\ include_nodes' = IF NeedsRegeneration(r.copied, found, oc)
                                  THEN SomeIds(include_nodes.ids \cup {node.id}) ELSE include_nodes
                    /\ copiedOk' = copiedOk \cup {<<node.id, k>> : k \in {x \in found : oc[x] = "ok"}}
                    /\ failed' = IF \E k \in found : oc[k] # "ok"
                                 THEN failed \cup {node.id} ELSE failed
                    /\ idx' = ni
                    /\ bg' = IF ni > Len(ns) THEN "prepared" ELSE "forwarding"
    /\ UNCHANGED <<inputVars, outExists, outCombined, outSchema, outD2, createdRunDir, rootVars, mainVars,
                   handed, bgError, events, threadStarts>>

\* an early return that is not covered by the finally clause
BgNothingToDoSkipsFinally ==
    /\ bg = "prepared"
    /\ ~include_nodes.isNone /\ include_nodes.ids = {}
    /\ bg' = "done"
    /\ UNCHANGED <<inputVars, outVars, mainVars, idx, include_nodes, handed, copiedOk, failed,
                   bgError, events, threadStarts>>
\* "if include_nodes is not None and not include_nodes: return"
BgNothingToDo ==
    /\ bg = "prepared"
    /\ ~include_nodes.isNone /\ include_nodes.ids = {}
    /\ bg' = "finally"
    /\ UNCHANGED <<inputVars, outVars, mainVars, idx, include_nodes, handed, copiedOk, failed,
                   bgError, events, threadStarts>>

\* the units generate_node_schema_and_diagram works on
GeneratorTargets(inc, schema) == IF inc.isNone THEN AllIds(schema.nodes) ELSE inc.ids

\* a unit generator whose exception reaches the caller of generate_diagram
BgGeneratePropagates ==
    /\ bg = "prepared"
    /\ include_nodes.isNone \/ include_nodes.ids # {}
    /\ handed' = [called |-> TRUE, isNone |-> include_nodes.isNone, ids |-> include_nodes.ids]
    /\ \E ok \in BOOLEAN :
         IF ok
         THEN /\ outUnits' = [f \in UnitFiles |->
                                IF f[1] \in GeneratorTargets(include_nodes, outSchema)
                                THEN Regenerated ELSE outUnits[f]]
              /\ UNCHANGED <<bgError, ret>>
         ELSE /\ bgError' = TRUE
              /\ ret' = "None"
              /\ UNCHANGED outUnits
    /\ bg' = "finally"
    /\ UNCHANGED <<inputVars, outExists, outCombined, outSchema, outD2, createdRunDir, rootVars, pc,
                   allowed_files, previous_run_dir, previous_schema, overview_schema, schemaCalls,
                   idx, include_nodes, copiedOk, failed, events, threadStarts>>
\* asyncio.run(generate_node_schema_and_diagram(..., include_node_ids=include_nodes))
BgGenerate ==
    /\ bg = "prepared"
    /\ include_nodes.isNone \/ include_nodes.ids # {}
    /\ handed' = [called |-> TRUE, isNone |-> include_nodes.isNone, ids |-> include_nodes.ids]
    /\ \E ok \in BOOLEAN :
         IF ok
         THEN /\ outUnits' = [f \in UnitFiles |->
                                IF f[1] \in GeneratorTargets(include_nodes, outSchema)
                                THEN Regenerated ELSE outUnits[f]]
              /\ UNCHANGED bgError
         ELSE /\ bgError' = TRUE
              /\ UNCHANGED outUnits
    /\ bg' = "finally"
    /\ UNCHANGED <<inputVars, outExists, outCombined, outSchema, outD2, createdRunDir, rootVars, mainVars,
                   idx, include_nodes, copiedOk, failed, events, threadStarts>>

\* the finally clause of run(): node_stop
BgStop ==
    /\ bg = "finally"
    /\ events' = Append(events, "node_stop")
    /\ bg' = "done"
    /\ UNCHANGED <<inputVars, outVars, mainVars, idx, include_nodes, handed, copiedOk, failed,
                   bgError, threadStarts>>

\* the unit generator of the previous run, still running in its own process,
\* opens an artifact file of its run directory or completes one
PrevWriter ==
    /\ \E f \in UnitFiles :
         \/ /\ prevUnits[f] = NoFile
            /\ prevUnits' = [prevUnits EXCEPT ![f] = Incomplete]
         \/ /\ prevUnits[f] = Incomplete
            /\ prevUnits' = [prevUnits EXCEPT ![f] = PrevBytes(f)]
    /\ UNCHANGED <<is_update, givenOut, srcIsDir, disk, runsBefore, outManifest, prevSchema,
                   clock, inv, latest, outVars, mainVars, bgVars, events, threadStarts>>

(***************************************************************************)
(* create_run_dir, step by step, in invocations that run side by side,     *)
(* and latest_diagram                                                      *)
(***************************************************************************)
flowVars == <<is_update, givenOut, srcIsDir, disk, runsBefore, outManifest, prevSchema, prevUnits,
              outExists, outCombined, outSchema, outD2, outUnits, createdRunDir,
              mainVars, bgVars, events, threadStarts>>

\* ensure_unslop_dir: the test of .unslop, at the start of an invocation
EnsureCheck(i) ==
    /\ inv[i].pc \in {"idle", "done", "failedEnsure", "failedCreate"}
    /\ Len(created) < MaxRuns
    /\ inv' = [inv EXCEPT ![i] = [pc |-> IF NeedsUnlink(unslop) THEN "unlink" ELSE "mkdir",
                                  saw |-> unslop, name |-> <<>>]]
    /\ UNCHANGED <<flowVars, unslop, store, clock, created, latest>>

\* ensure_unslop_dir: unslop_dir.unlink()
EnsureUnlink(i) ==
    /\ inv[i].pc = "unlink"
    /\ unslop' = Unlink(unslop).unslop
    /\ inv' = [inv EXCEPT ![i].pc = IF Unlink(unslop).raised THEN "failedEnsure" ELSE "mkdir"]
    /\ UNCHANGED <<flowVars, store, clock, created, latest>>

\* ensure_unslop_dir: unslop_dir.mkdir(exist_ok=True)
EnsureMkdir(i) ==
    /\ inv[i].pc = "mkdir"
    /\ unslop' = MkdirExistOk(unslop).unslop
    /\ inv' = [inv EXCEPT ![i].pc = IF MkdirExistOk(unslop).raised THEN "failedEnsure" ELSE "ready"]
    /\ UNCHANGED <<flowVars, store, clock, created, latest>>

\* create_run_dir: timestamp, suffix, run_dir.mkdir() and the return
MkRunDir(i) ==
    /\ inv[i].pc = "ready"
    /\ \E sfx \in Suffixes :
         LET m == Mkdir(store, RunName(clock, sfx))
         IN IF unslop # "dir" \/ m.raised
            THEN /\ inv' = [inv EXCEPT ![i].pc = "failedCreate"]
                 /\ UNCHANGED <<store, created>>
            ELSE /\ store' = m.store
                 /\ created' = Append(created, RunName(clock, sfx))
                 /\ inv' = [inv EXCEPT ![i].pc = "persist", ![i].name = RunName(clock, sfx)]
    /\ UNCHANGED <<flowVars, unslop, clock, latest>>

\* the run writes the manifest it computed into its run directory
PersistManifest(i) ==
    /\ inv[i].pc = "persist"
    /\ store' = [store EXCEPT ![inv[i].name] = DirEntry(@.files \cup {ManifestJson})]
    /\ inv' = [inv EXCEPT ![i].pc = "done"]
    /\ UNCHANGED <<flowVars, unslop, clock, created, latest>>

\* a second passes
Tick ==
    /\ clock < MaxClock
    /\ clock' = clock + 1
    /\ UNCHANGED <<flowVars, unslop, store, created, inv, latest>>

\* a call of latest_diagram
CallLatestDiagram ==
    /\ ~latest.called
    /\ latest' = [called |-> TRUE, result |-> latest_diagram(unslop, store)]
    /\ UNCHANGED <<flowVars, unslop, store, clock, created, inv>>

(***************************************************************************)
(* Initial states                                                          *)
(***************************************************************************)
ManifestsWith(P, metas) ==
    {ManifestAbsent, ManifestUnreadable, ManifestNoEntries}
        \cup {ManifestOk(f) : f \in UNION {[S -> Entries(metas)] : S \in SUBSET P}}
ManifestsOver(P) == ManifestsWith(P, SameMeta)
RunsOver(P, n) == UNION {[1..k -> ManifestsOver(P)] : k \in 0..n}

\* the source tree: src is a directory whenever a file lies under it
TreeOk(files, isDir) == (\E p \in files : StartsWith(p, SrcName \o <<"/">>)) => isDir

\* no invocation of create_run_dir is under way, latest_diagram was not called
LedgerIdle == created = <<>> /\ inv = [i \in Invokers |-> IdleInvoker] /\ latest = NotCalled
\* .unslop before the call: the run directories the inputs speak of
RootBefore ==
    /\ clock = 0
    /\ store = [n \in OldRunNames(Len(runsBefore)) \cup (IF givenOut THEN {GivenRunName} ELSE {})
                  |-> DirEntry({})]
    /\ unslop \in IF DOMAIN store = {} THEN {"absent", "file", "dir"} ELSE {"dir"}

\* nothing has run yet
Idle ==
    /\ pc = "idle" /\ ret = "unset" /\ allowed_files = NoneDict
    /\ previous_run_dir = FALSE /\ previous_schema = SchemaAbsent /\ overview_schema = SchemaAbsent
    /\ schemaCalls = 0 /\ threadStarts = 0 /\ events = <<>>
    /\ bg = "idle" /\ idx = 0 /\ include_nodes = NoneIds /\ handed = NotHanded
    /\ copiedOk = {} /\ failed = {} /\ bgError = FALSE
    /\ outCombined = NoCombined /\ outSchema = SchemaAbsent /\ outD2 = FALSE
    /\ outUnits = NoUnitFiles /\ createdRunDir = FALSE
    /\ LedgerIdle

\* a call of generate_diagram: output_dir is either left to create_run_dir or
\* a directory of the caller, which may hold the manifest of this run
Init ==
    /\ is_update \in BOOLEAN
    /\ givenOut \in BOOLEAN
    /\ outExists = givenOut
    /\ outManifest \in IF givenOut THEN ManifestsOver({pSrcA}) ELSE {ManifestAbsent}
    /\ runsBefore \in RunsOver({pSrcA}, MaxRunsBefore)
    /\ srcIsDir \in BOOLEAN
    /\ disk \in SUBSET {pSrcA}
    /\ TreeOk(disk, srcIsDir)
    /\ prevSchema \in {SchemaAbsent, SchemaOk(<<>>)}
    /\ prevUnits \in {NoUnitFiles, [f \in UnitFiles |-> PrevBytes(f)]}
    /\ Idle
    /\ RootBefore

\* the inputs of _load_all_files and _load_changed_files
InitPlan ==
    /\ is_update \in BOOLEAN
    /\ givenOut = TRUE
    /\ outExists = TRUE
    /\ outManifest \in ManifestsOver(Paths)
    /\ runsBefore \in RunsOver(Paths, 1)
    /\ srcIsDir \in BOOLEAN
    /\ disk \in SUBSET Paths
    /\ TreeOk(disk, srcIsDir)
    /\ prevSchema = SchemaAbsent
    /\ prevUnits = NoUnitFiles
    /\ Idle
    /\ RootBefore

\* the state in which thread.start() leaves an update run (previous run
\* directory present) or a full run (previous_run_dir None)
InitReuse ==
    /\ is_update \in BOOLEAN
    /\ givenOut = TRUE
    /\ outExists = TRUE
    /\ outManifest = ManifestOk([p \in {pA} |-> [hash |-> 1, meta |-> 0]])
    /\ runsBefore = IF is_update THEN <<ManifestOk(EmptyDict)>> ELSE <<>>
    /\ srcIsDir = FALSE
    /\ disk = {pA}
    /\ prevSchema = SchemaAbsent
    /\ prevUnits \in IF is_update THEN PrevDirs ELSE {NoUnitFiles}
    /\ pc = "threadStarted" /\ ret = "unset"
    /\ allowed_files = SomeDict([p \in {pA} |-> "added"])
    /\ previous_run_dir = is_update
    /\ previous_schema = SchemaAbsent
    /\ outSchema \in SchemaTexts
    /\ overview_schema = outSchema
    /\ schemaCalls = 1 /\ threadStarts = 1
    /\ events = <<"overview_start", "node_start">>
    /\ bg = "started" /\ idx = 0 /\ include_nodes = NoneIds /\ handed = NotHanded
    /\ copiedOk = {} /\ failed = {} /\ bgError = FALSE
    /\ outCombined = [present |-> TRUE, headers |-> {<<pA, "added">>}]
    /\ outD2 = TRUE
    /\ outUnits = NoUnitFiles /\ createdRunDir = FALSE
    /\ LedgerIdle /\ RootBefore

(***************************************************************************)
(* Specifications                                                          *)
(***************************************************************************)
Next ==
    \/ Enter \/ PlanFull \/ PlanUpdate \/ SchemaCallOk \/ SchemaCallFails \/ WriteSchema
    \/ RenderOverview \/ StartThread \/ Return
    \/ BgPrepare \/ BgForward \/ BgNothingToDo \/ BgGenerate \/ BgStop
Spec == Init /\ [][Next]_vars

\* the thread unslop-node-diagrams is scheduled as long as it has a step to take
BgStep == BgPrepare \/ BgForward \/ BgNothingToDo \/ BgGenerate \/ BgStop
\* calls of generate_diagram on an output directory that holds a manifest,
\* with or without an older run
InitLive ==
    /\ is_update \in BOOLEAN
    /\ givenOut = TRUE
    /\ outExists = TRUE
    /\ outManifest = ManifestOk([p \in {pSrcA} |-> [hash |-> 1, meta |-> 0]])
    /\ runsBefore \in {<<>>, <<ManifestOk(EmptyDict)>>}
    /\ srcIsDir \in BOOLEAN
    /\ disk \in SUBSET {pSrcA}
    /\ TreeOk(disk, srcIsDir)
    /\ prevSchema \in {SchemaAbsent, SchemaOk(<<>>)}
    /\ prevUnits \in {NoUnitFiles, [f \in UnitFiles |-> PrevBytes(f)]}
    /\ Idle
    /\ RootBefore
SpecLive == InitLive /\ [][Next]_vars /\ WF_vars(BgStep)

\* the manifests _load_changed_files diffs, the metadata of their entries
\* varying independently of the hashes
InitDiff ==
    /\ is_update = TRUE
    /\ givenOut = TRUE
    /\ outExists = TRUE
    /\ outManifest \in ManifestsWith({pA, pSrcA}, MetaValues)
    /\ runsBefore \in [1..1 -> ManifestsWith({pA, pSrcA}, MetaValues)]
    /\ srcIsDir \in BOOLEAN
    /\ disk \in SUBSET {pA, pSrcA}
    /\ TreeOk(disk, srcIsDir)
    /\ prevSchema = SchemaAbsent
    /\ prevUnits = NoUnitFiles
    /\ Idle
    /\ RootBefore
NextDiff == Enter \/ PlanUpdate
SpecDiff == InitDiff /\ [][NextDiff]_vars

\* no call of generate_diagram is under way
NoCall ==
    /\ is_update = FALSE /\ givenOut = FALSE /\ outExists = FALSE
    /\ outManifest = ManifestAbsent /\ runsBefore = <<>>
    /\ srcIsDir = FALSE /\ disk = {}
    /\ prevSchema = SchemaAbsent /\ prevUnits = NoUnitFiles
    /\ Idle

\* a project root before invocations of create_run_dir: no .unslop, the
\* marker file of an older version, or a directory with what older runs left
InitRuns ==
    /\ NoCall
    /\ clock = 0
    /\ unslop \in {"absent", "file", "dir"}
    /\ store \in IF unslop = "dir"
                 THEN {NoStore,
                       (LegacyDir :> DirEntry({ManifestJson})),
                       (RunName(0, 0) :> DirEntry({ManifestJson, OverviewD2}))}
                 ELSE {NoStore}
NextRuns ==
    \/ \E i \in Invokers :
          EnsureCheck(i) \/ EnsureUnlink(i) \/ EnsureMkdir(i) \/ MkRunDir(i) \/ PersistManifest(i)
    \/ Tick
SpecRuns == InitRuns /\ [][NextRuns]_vars

\* what a matching and a non-matching entry of .unslop may be
EntryOptions(n) ==
    IF MatchesRunDirRe(n) THEN {FileEntry} \cup {DirEntry(F) : F \in SUBSET D2Files}
    ELSE {DirEntry({}), DirEntry({UnitZD2})}
StoresOver(N) ==
    UNION {{f \in [D -> UNION {EntryOptions(n) : n \in D}] : \A n \in D : f[n] \in EntryOptions(n)} :
             D \in SUBSET N}
\* the project roots latest_diagram is called on
InitLatest ==
    /\ NoCall
    /\ clock = 0
    /\ unslop \in {"absent", "file", "dir"}
    /\ store \in IF unslop = "dir"
                 THEN StoresOver({RunName(0, sfx) : sfx \in Suffixes} \cup {LegacyDir})
                 ELSE {NoStore}
NextLatest == CallLatestDiagram
SpecLatest == InitLatest /\ [][NextLatest]_vars

NextPlan == Enter \/ PlanFull \/ PlanUpdate
SpecPlan == InitPlan /\ [][NextPlan]_vars

NextReuse == BgPrepare \/ BgForward \/ BgNothingToDo \/ BgGenerate \/ BgStop
SpecReuse == InitReuse /\ [][NextReuse]_vars

\* an update run whose thread forwards from a run directory that the unit
\* generator of the previous run is still writing
InitOverlap ==
    /\ is_update = TRUE
    /\ givenOut = TRUE
    /\ outExists = TRUE
    /\ outManifest = ManifestOk([p \in {pA} |-> [hash |-> 1, meta |-> 0]])
    /\ runsBefore = <<ManifestOk(EmptyDict)>>
    /\ srcIsDir = FALSE
    /\ disk = {pA}
    /\ prevSchema = SchemaAbsent
    /\ prevUnits \in PrevDirsBeingWritten
    /\ pc = "threadStarted" /\ ret = "unset"
    /\ allowed_files = SomeDict([p \in {pA} |-> "added"])
    /\ previous_run_dir = TRUE
    /\ previous_schema = SchemaAbsent
    /\ outSchema \in ServiceTexts
    /\ overview_schema = outSchema
    /\ schemaCalls = 1 /\ threadStarts = 1
    /\ events = <<"overview_start", "node_start">>
    /\ bg = "started" /\ idx = 0 /\ include_nodes = NoneIds /\ handed = NotHanded
    /\ copiedOk = {} /\ failed = {} /\ bgError = FALSE
    /\ outCombined = [present |-> TRUE, headers |-> {<<pA, "added">>}]
    /\ outD2 = TRUE
    /\ outUnits = NoUnitFiles /\ createdRunDir = FALSE
    /\ LedgerIdle /\ RootBefore
NextOverlap == NextReuse \/ PrevWriter
SpecOverlap == InitOverlap /\ [][NextOverlap]_vars

(***************************************************************************)
(* Forwarding of unit artifacts (checked under SpecReuse)                  *)
(***************************************************************************)
\* _prepare_node_diagram_inputs has returned a set
LoopDone == bg \in {"prepared", "finally", "done"} /\ outSchema.st = "ok" /\ ~include_nodes.isNone
\* run() is past the call of the unit generator
PastGenerate == bg \in {"finally", "done"} /\ outSchema.st = "ok"
\* the unit is in the set the unit generator was handed (None hands it every unit)
HandedUnit(id) == handed.called /\ (handed.isNone \/ id \in handed.ids)
\* the unit is to be regenerated
InRegenerationSet(id) == include_nodes.isNone \/ id \in include_nodes.ids
\* the ids some node of the schema carries with a status other than unchanged
NotUnchangedIds(ns) ==
    {ns[i].id : i \in {j \in 1..Len(ns) : ns[j].status # "unchanged" /\ ns[j].id # NoId}}
\* the number of nodes that carry the id
Occurrences(ns, id) == Cardinality({j \in 1..Len(ns) : ns[j].id = id})
\* a copy2 call completed for some artifact file of the unit
SomeFileCopied(id) == \E k \in KindSet : <<id, k>> \in copiedOk

\* C1: in an incremental run every unit of the schema that is not marked
\* unchanged is in the regeneration set handed to the unit generator, also when
\* its id occurs in several nodes with different statuses.
C1_NotUnchangedIsHanded ==
    (previous_run_dir /\ PastGenerate) =>
        \A id \in NotUnchangedIds(outSchema.nodes) : HandedUnit(id)

\* C2 as stated: a unit marked unchanged is excluded from the regeneration set
\* if and only if at least one of its artifact files was copied successfully.
C2_ExcludedIffSomeFileCopied ==
    (bg \in {"prepared", "finally", "done"} /\ outSchema.st = "ok") =>
        \A id \in unchanged_ids(outSchema.nodes) :
            (~InRegenerationSet(id)) <=> SomeFileCopied(id)

\* C2 amended: a unit marked unchanged that is excluded from the regeneration
\* set had at least one artifact file copied, and when its id is carried by one
\* node only it is excluded if and only if at least one of its files was
\* copied (a partial copy counts, no file found or every copy failing does not).
C2_ExcludedIffSomeFileCopiedOnce ==
    (bg \in {"prepared", "finally", "done"} /\ outSchema.st = "ok") =>
        \A id \in unchanged_ids(outSchema.nodes) :
            /\ (~InRegenerationSet(id)) => SomeFileCopied(id)
            /\ Occurrences(outSchema.nodes, id) = 1 =>
                   (SomeFileCopied(id) => ~InRegenerationSet(id))

\* a unit with one artifact kind in the previous run was reused by a partial copy
C2_Witness ==
    /\ LoopDone
    /\ \E id \in unchanged_ids(outSchema.nodes) :
         /\ Occurrences(outSchema.nodes, id) = 1
         /\ FoundKinds(prevUnits, id) = {"d2"}
         /\ copiedOk = {<<id, "d2">>}
         /\ ~InRegenerationSet(id)

\* the files of the unit are in the new run directory as the previous run left them
ForwardedIntact(id) ==
    \A k \in KindSet :
        /\ outUnits[<<id, k>>] = PrevBytes(<<id, k>>)
        /\ prevUnits[<<id, k>>] = PrevBytes(<<id, k>>)

C9_CopyFailureKeepsBatch ==
    (failed # {} /\ bg # "forwarding") =>
        /\ LoopDone
        /\ bg = "prepared" => ~bgError
        /\ \A id \in AllIds(outSchema.nodes) : InRegenerationSet(id) \/ SomeFileCopied(id)
        /\ \A id \in AllIds(outSchema.nodes) \ failed :
             IF id \in unchanged_ids(outSchema.nodes) /\ FoundKinds(prevUnits, id) # {}
             THEN /\ ~InRegenerationSet(id)
                  /\ \A k \in FoundKinds(prevUnits, id) : <<id, k>> \in copiedOk
             ELSE InRegenerationSet(id)

\* the copy failed for the first unit and the second one was still forwarded
C9_Witness ==
    /\ LoopDone
    /\ Len(outSchema.nodes) = 2
    /\ outSchema.nodes[1].id = "a" /\ outSchema.nodes[2].id = "b"
    /\ failed = {"a"}
    /\ InRegenerationSet("a")
    /\ SomeFileCopied("b") /\ ~InRegenerationSet("b")

(***************************************************************************)
(* The overview step and the background thread (checked under Spec)        *)
(***************************************************************************)
\* C4: the background thread is started only after the schema the service
\* returned has been written to overview.json, so it never reads the schema or
\* classifies units before that write, and it is started at most once.
C4_ThreadStartsAfterSchemaWritten ==
    /\ threadStarts <= 1
    /\ bg # "idle" =>
         /\ threadStarts = 1
         /\ schemaCalls = 1
         /\ outSchema.st # "absent"
         /\ outSchema = overview_schema
         /\ pc \in {"threadStarted", "returned"}

\* the thread classifies the units of a schema that is on disk
C4_Witness ==
    /\ bg = "forwarding"
    /\ outSchema.st = "ok" /\ outSchema = overview_schema
    /\ threadStarts = 1

\* the update run has no usable prior state: no older run holds a manifest, or
\* the previous or the current manifest does not yield entries
NoUsablePriorState ==
    \/ ~HasPrevious
    \/ read_manifest_entries(runsBefore[find_previous_manifest(runsBefore)]).isNone
    \/ read_manifest_entries(outManifest).isNone

\* C5: an update invocation that finds no usable prior state performs a full
\* regeneration: it combines the sources and calls the schema service instead
\* of returning without doing so.
C5_NoPriorStateRegeneratesAll ==
    (is_update /\ NoUsablePriorState /\ pc = "returned") =>
        outCombined.present /\ schemaCalls >= 1

\* a previous manifest exists and the changeset against it is empty
NoWork ==
    /\ is_update
    /\ ~NoUsablePriorState
    /\ LET s == summarize_changes(runsBefore[find_previous_manifest(runsBefore)].files,
                                 outManifest.files)
       IN s.added \cup s.modified \cup s.deleted = {}

C10_CallerNeverBlocks ==
    /\ pc = "threadStarted" => ENABLED Return
    /\ ret \in {"unset", "None", "path"}
    /\ pc = "returned" => ret \in {"None", "path"}

\* generate_diagram has returned the path and the thread has not run yet
C10_Witness == pc = "returned" /\ ret = "path" /\ bg = "started"

(***************************************************************************)
(* Selection of the files to regenerate (checked under SpecPlan)           *)
(***************************************************************************)
\* the changeset _load_changed_files computes
Changes ==
    summarize_changes(runsBefore[find_previous_manifest(runsBefore)].files, outManifest.files)
ChangedPaths == Changes.added \cup Changes.modified \cup Changes.deleted
\* the changed paths under the regeneration target
UnderTarget(S) == {p \in S : StartsWith(p, PrefixOf(srcIsDir)) /\ p # PrefixOf(srcIsDir)}
Rebased(p) == SliceFrom(p, Len(PrefixOf(srcIsDir)))
\* the marker of the changeset set a path belongs to
SetMarker(p) ==
    IF p \in Changes.deleted THEN "deleted"
    ELSE IF p \in Changes.added THEN "added" ELSE "updated"
\* _load_changed_files has computed a changeset with changes in it
PartialPlan ==
    /\ is_update /\ pc \in {"planned", "returned"}
    /\ ~NoUsablePriorState
    /\ ChangedPaths # {}

\* C7: in a partial regeneration every changed path under the regeneration
\* target is in the plan with the marker of its changeset set (deleted, added,
\* updated for modified), for the project root and for the src sub-directory;
\* stated for a source tree that still is as the current manifest recorded it.
C7_ChangedPathsKeepTheirMarker ==
    (PartialPlan /\ disk = DOMAIN outManifest.files) =>
        \A p \in UnderTarget(ChangedPaths) :
            /\ ~allowed_files.isNone
            /\ Rebased(p) \in DOMAIN allowed_files.files
            /\ allowed_files.files[Rebased(p)] = SetMarker(p)

\* the plan has been computed from a manifest
PlanFromManifest == pc \in {"planned", "returned"} /\ ~allowed_files.isNone

\* C8: with the src sub-directory as regeneration target, every selected path
\* is a manifest path under src/ (of the current manifest in a full run, of the
\* changeset in an incremental run), expressed relative to src/.
C8_SelectedPathsAreUnderTarget ==
    (srcIsDir /\ PlanFromManifest) =>
        \A r \in DOMAIN allowed_files.files :
            /\ r # EmptyStr
            /\ IF is_update
               THEN (PrefixOf(srcIsDir) \o r) \in ChangedPaths
               ELSE (PrefixOf(srcIsDir) \o r) \in DOMAIN outManifest.files

\* an incremental plan for src/ that selected a path while a changed path
\* outside src/ was dropped
C8_Witness ==
    /\ srcIsDir /\ is_update /\ pc = "planned" /\ ~allowed_files.isNone
    /\ pLibA \in ChangedPaths
    /\ pSrcA \in ChangedPaths
    /\ DOMAIN allowed_files.files = {<<"a">>}

(***************************************************************************)
(* Errors (checked under Spec)                                             *)
(***************************************************************************)
\* C11: an error raised inside the background task (reading or classifying the
\* schema, forwarding, regenerating) is caught inside the task: the task goes
\* on to its finally clause, and the step that raises changes neither the
\* position of the caller in generate_diagram nor the value it returns.
C11_BackgroundErrorsStayInTask ==
    /\ [](bgError => bg \in {"finally", "done"})
    /\ [][(bgError' # bgError \/ failed' # failed) => (ret' = ret /\ pc' = pc)]_vars
C11_Witness == bgError /\ bg = "done" /\ pc = "returned" /\ ret = "path"

\* the overview schema service was called and raised
SchemaFailed == schemaCalls = 1 /\ overview_schema = SchemaAbsent

\* C12: when the overview schema service fails, generate_diagram returns None
\* without raising, no overview.json is written, no background task is
\* started, and the manifest in the run directory is left unchanged.
C12_SchemaFailureReturnsNone ==
    [][/\ outManifest' = outManifest
       /\ SchemaFailed' =>
             /\ pc' = "returned" /\ ret' = "None"
             /\ outSchema' = SchemaAbsent /\ outD2' = FALSE
             /\ bg' = "idle" /\ threadStarts' = 0]_vars
C12_Witness ==
    /\ SchemaFailed /\ pc = "returned" /\ ret = "None"
    /\ outManifest.st = "ok" /\ outCombined.present

(***************************************************************************)
(* Loading markers (checked under SpecLive)                                *)
(***************************************************************************)
\* the number of markers of one kind logged so far
Count(marker) == Cardinality({i \in 1..Len(events) : events[i] = marker})

\* C20: every node_start is eventually followed by exactly one node_stop,
\* whether the task regenerates, returns early or fails, as long as the task
\* is scheduled; no node_stop is logged without a node_start before it.
C20_NodeStartLeadsToNodeStop ==
    /\ [](Count("node_stop") <= Count("node_start") /\ Count("node_start") <= 1)
    /\ [][events' # events /\ events'[Len(events')] = "node_stop" =>
            Count("node_start") = 1 /\ Count("node_stop") = 0]_vars
    /\ (Count("node_start") = 1) ~> (Count("node_stop") = 1)
C20_Witness == Count("node_start") = 1 /\ Count("node_stop") = 1 /\ bgError

(***************************************************************************)
(* The changeset (checked under SpecDiff)                                  *)
(***************************************************************************)
\* both manifests of the diff hold entries
BothReadable ==
    /\ outManifest.st = "ok"
    /\ find_previous_manifest(runsBefore) # 0
    /\ runsBefore[find_previous_manifest(runsBefore)].st = "ok"
PrevEntries == runsBefore[find_previous_manifest(runsBefore)].files
CurEntries == outManifest.files
\* a path of both manifests with the same hash and different metadata
MetaOnlyChange(k) ==
    /\ k \in DOMAIN PrevEntries \cap DOMAIN CurEntries
    /\ PrevEntries[k].hash = CurEntries[k].hash
    /\ PrevEntries[k].meta # CurEntries[k].meta

\* C18: the changeset of two manifests has added = keys(C) minus keys(P),
\* deleted = keys(P) minus keys(C), modified = the common keys whose hash
\* differs, a common key with equal hash and different size or mtime being in
\* none of them; the three sets are pairwise disjoint, and the plan
\* _load_changed_files builds from the changeset selects no other path.
C18_ChangeSetByHash ==
    BothReadable =>
        /\ Changes.added = DOMAIN CurEntries \ DOMAIN PrevEntries
        /\ Changes.deleted = DOMAIN PrevEntries \ DOMAIN CurEntries
        /\ \A k \in DOMAIN PrevEntries \cap DOMAIN CurEntries :
              k \in Changes.modified <=> PrevEntries[k].hash # CurEntries[k].hash
        /\ Changes.modified \subseteq DOMAIN PrevEntries \cap DOMAIN CurEntries
        /\ Changes.added \cap Changes.deleted = {}
        /\ Changes.added \cap Changes.modified = {}
        /\ Changes.deleted \cap Changes.modified = {}
        /\ \A k \in DOMAIN PrevEntries \cup DOMAIN CurEntries :
              MetaOnlyChange(k) => k \notin ChangedPaths
        /\ (pc \in {"planned", "returned"} /\ ~allowed_files.isNone) =>
              \A r \in DOMAIN allowed_files.files :
                  (PrefixOf(srcIsDir) \o r) \in ChangedPaths
\* a plan computed from two manifests in which one path changed its hash and
\* another only its metadata
C18_Witness ==
    /\ BothReadable /\ pc = "planned" /\ ~srcIsDir
    /\ MetaOnlyChange(pSrcA) /\ pA \in Changes.modified
    /\ DOMAIN allowed_files.files = {pA}

(***************************************************************************)
(* Forwarding from a run directory that is still written (SpecOverlap)     *)
(***************************************************************************)
\* every artifact file forwarded for the unit was incomplete when it was copied
ForwardedIncompleteOnly(id) ==
    /\ SomeFileCopied(id)
    /\ \A k \in KindSet : <<id, k>> \in copiedOk => outUnits[<<id, k>>] = Incomplete

\* C16: a unit whose artifact the background task of the previous run is still
\* writing while this run forwards is not counted as reused from the
\* incomplete file: it is in the regeneration set.
C16_IncompleteFileNotReused ==
    (bg \in {"prepared", "finally", "done"} /\ outSchema.st = "ok") =>
        \A id \in unchanged_ids(outSchema.nodes) :
            ForwardedIncompleteOnly(id) => InRegenerationSet(id)

(***************************************************************************)
(* Run directories (checked under SpecRuns)                                *)
(***************************************************************************)
\* the run directories list_run_dirs returns
RunDirs == {n \in DOMAIN store : unslop = "dir" /\ store[n].dir /\ MatchesRunDirRe(n)}

\* C13: of two run directories created one after the other by create_run_dir
\* under one project root, the one created later sorts strictly after the
\* other in list_run_dirs, also when both are created within the same second,
\* so that latest_run_dir is the run directory created last.
C13_CreationOrderIsSortOrder ==
    /\ \A i \in 1..Len(created) : \A j \in 1..Len(created) :
          i < j => LexLess(created[i], created[j])
    /\ created # <<>> => latest_run_dir(unslop, store).name = created[Len(created)]

\* C15: create_run_dir never returns a directory that existed before the call
\* (a taken name makes it raise), so no two invocations, one after the other
\* or side by side, hold the same run directory.
C15_RunDirIsFresh ==
    /\ [](\A i \in 1..Len(created) : \A j \in 1..Len(created) :
            i # j => created[i] # created[j])
    /\ [][created' # created =>
            /\ created'[Len(created')] \notin DOMAIN store
            /\ created'[Len(created')] \in DOMAIN store'
            /\ SubSeq(created', 1, Len(created)) = created]_vars
\* two invocations side by side drew the same name: one holds the run
\* directory, the other failed
C15_Witness ==
    \E i \in Invokers : \E j \in Invokers :
        /\ inv[i].pc = "failedCreate"
        /\ inv[j].pc \in {"persist", "done"}
        /\ Len(created) = 1

\* the invocation is inside ensure_unslop_dir
InEnsure(i) == inv[i].pc \in {"unlink", "mkdir"}

\* C17: when a marker that is no directory occupies .unslop, the first run
\* replaces it by a directory and the manifest of that run is persisted inside
\* it; when .unslop is a directory, ensure_unslop_dir leaves it and all its
\* contents unchanged.
C17_MarkerBecomesDirectory ==
    /\ [](\A i \in Invokers :
            /\ inv[i].pc \in {"ready", "persist", "done"} => unslop = "dir"
            /\ inv[i].pc = "done" =>
                  /\ inv[i].name \in RunDirs
                  /\ ManifestJson \in store[inv[i].name].files
            /\ inv[i].pc = "failedEnsure" => unslop # "file")
    /\ [][\A i \in Invokers :
            (unslop = "dir" /\ inv'[i] # inv[i] /\ (InEnsure(i) \/ InEnsure(i)')) =>
                (unslop' = "dir" /\ store' = store)]_vars
\* a run that found the marker file has replaced it and persisted its manifest
C17_Witness ==
    \E i \in Invokers :
        /\ inv[i].pc = "done" /\ inv[i].saw = "file"
        /\ unslop = "dir"
        /\ ManifestJson \in store[inv[i].name].files

(***************************************************************************)
(* latest_diagram (checked under SpecLatest)                               *)
(***************************************************************************)
\* the .d2 files of a run directory
D2In(n) == {f \in store[n].files : EndsWith(f, D2Suffix)}
\* the run directories that hold a .d2 file
RunDirsWithD2 == {n \in RunDirs : D2In(n) # {}}

C14_HistoryIsAppendOnly ==
    [][/\ \A n \in DOMAIN store : n \in DOMAIN store' /\ store'[n] = store[n]
       /\ unslop = "dir" => unslop' = "dir"
       /\ runsBefore' = runsBefore
       /\ prevSchema' = prevSchema
       /\ prevUnits' = prevUnits]_vars
\* an update run forwarded from the previous run directory and regenerated
C14_Witness ==
    /\ Len(runsBefore) = 1 /\ previous_run_dir
    /\ copiedOk # {} /\ handed.called /\ bg = "done"
    /\ \A f \in UnitFiles : prevUnits[f] = PrevBytes(f)

(***************************************************************************)
(* Overview markers (checked under Spec)                                   *)
(***************************************************************************)
\* generate_diagram got past create_run_dir and the dispatch to the overview step
PastDispatch == pc \notin {"idle", "entered"} /\ ~(pc = "raised" /\ schemaCalls = 0)
\* the update step found an empty changeset
NoChangeOutcome == PastDispatch /\ NoWork
\* the update step found no usable prior state
NoPriorStateOutcome == PastDispatch /\ is_update /\ NoUsablePriorState
\* the schema service raised
SchemaFailureOutcome == SchemaFailed

\* C21: generate_diagram logs overview_start once on every call, first of all
\* markers, and logs overview_stop if and only if it returns a diagram path;
\* on the no-change, no-prior-state and schema-failure outcomes it returns
\* None (the same value for the three) and no overview_stop follows the
\* overview_start.
C21_OverviewStopIffPath ==
    /\ Count("overview_start") = IF pc = "idle" THEN 0 ELSE 1
    /\ events # <<>> => events[1] = "overview_start"
    /\ Count("overview_stop") = IF ret = "path" THEN 1 ELSE 0
    /\ ret = "path" => pc = "returned"
    /\ (NoChangeOutcome \/ NoPriorStateOutcome \/ SchemaFailureOutcome) =>
          /\ pc = "returned" /\ ret = "None"
          /\ Count("overview_stop") = 0
\* an update run returned a diagram path, the thread has finished
C21_Witness ==
    /\ is_update /\ pc = "returned" /\ ret = "path" /\ bg = "done"
    /\ events[Len(events)] = "node_stop"
    /\ Count("overview_start") = 1 /\ Count("overview_stop") = 1
====
